---------------------------- MODULE Spec2Model ----------------------------
(***************************************************************************)
(* The WASM host runtime of go-examples: the supervisor (main), the module *)
(* host (newWasmModule) and the four host functions the guest imports      *)
(* (getField, putField, log, getCurrentTime), together with the guest      *)
(* memory they index.                                                      *)
(*                                                                         *)
(* Guest pointers and lengths are Go int32 values.  TLC's integers are     *)
(* themselves 32 bits wide, so -2^31 and 2^32 are never written down: the  *)
(* int32 sum is computed by cases (Add32).  Guest memory is a function     *)
(* 0..memSize-1 -> byte; strings are sequences of byte values.             *)
(***************************************************************************)
EXTENDS Integers, Sequences, FiniteSets, TLC

\* ------------------------------------------------------------------ bounds
\* Bytes of linear memory the instance starts with.
InitMemSize == 80
\* Bytes one memory.grow inside the guest adds.
GrowBy == 16
\* Capability calls the guest makes during one process() invocation.
MaxCalls == 2
\* The maximum the guest module declares for its memory: one growth.
MaxMemSize == InitMemSize + GrowBy

\* ------------------------------------------------------- program constants
StatusOK == 0
StatusInternalFailure == 1
StatusInvalidArgument == 2
StatusNotFound == 3

LogLevelDebug == 0
LogLevelInfo == 1
LogLevelWarn == 2
LogLevelError == 3
LogLevelCritical == 4

MaxInt32 == 2147483647
MinInt32 == (-2147483647) - 1

\* "message", the one field name getField knows.
MessageName == <<109, 101, 115, 115, 97, 103, 101>>

\* raw, the value getField holds for "message" (44 hex digits).
Raw ==
  <<100, 102, 48, 48, 48, 48, 48, 48, 48, 49, 97, 52, 54, 52, 54, 49, 55, 52,
    54, 49, 97, 98, 54, 56, 54, 53, 54, 99, 54, 99, 54, 102, 50, 48, 55, 55,
    54, 102, 55, 50, 54, 99, 54, 52>>

\* ------------------------------------------------------- int32 arithmetic
\* a + b on Go int32 values, wrapping modulo 2^32.
Add32(a, b) ==
  IF a >= 0 /\ b >= 0
    THEN IF b > MaxInt32 - a THEN (a + MinInt32) + (b + MinInt32) ELSE a + b
    ELSE IF a < 0 /\ b < 0
      THEN IF b < MinInt32 - a THEN (a - MinInt32) + (b - MinInt32) ELSE a + b
      ELSE a + b

\* The four bytes most significant first.
PutUint32_BigEndian(v) ==
  LET u == IF v >= 0 THEN v ELSE v - MinInt32
      top == (u \div 16777216) + (IF v >= 0 THEN 0 ELSE 128)
  IN  <<top, (u \div 65536) % 256, (u \div 256) % 256, u % 256>>

\* binary.LittleEndian.PutUint32 of uint32(v) for an int32 v: four bytes.
PutUint32(v) ==
  LET u == IF v >= 0 THEN v ELSE v - MinInt32
      top == (u \div 16777216) + (IF v >= 0 THEN 0 ELSE 128)
  IN  <<u % 256, (u \div 256) % 256, (u \div 65536) % 256, top>>

\* An encoding that keeps the low 16 bits of the value and zeroes the rest.
PutUint64_Low16(t) ==
  <<t[1] % 256, t[1] \div 256, 0, 0, 0, 0, 0, 0>>

\* A uint64 is four 16-bit limbs, least significant first;
\* binary.LittleEndian.PutUint64 lays it out as eight bytes.
PutUint64(t) ==
  <<t[1] % 256, t[1] \div 256, t[2] % 256, t[2] \div 256,
    t[3] % 256, t[3] \div 256, t[4] % 256, t[4] \div 256>>

\* ------------------------------------------------------------ guest memory
\* A bounds check that looks at the end of the range alone.
SliceOK_EndOnly(size, ptr, len) == Add32(ptr, len) <= size

\* memory.Data()[lo:hi] with int32 indices: Go panics unless
\* 0 <= lo <= hi <= cap, where hi was computed as the int32 sum.
SliceOK(size, ptr, len) ==
  LET hi == Add32(ptr, len)
  IN  /\ 0 <= ptr
      /\ ptr <= hi
      /\ hi <= size

\* The bytes of m[ptr : ptr+len], for a slice that is in bounds (the host
\* functions take it of no other; outside memory it reads as 0, which keeps
\* the operator total).
Bytes(m, ptr, len) ==
  [i \in 1..len |-> IF ptr + i - 1 \in DOMAIN m THEN m[ptr + i - 1] ELSE 0]

\* m after copy(m[ptr:ptr+Len(bs)], bs), for a slice that is in bounds.
Store(m, ptr, bs) ==
  [a \in DOMAIN m |->
     IF a >= ptr /\ a < ptr + Len(bs) THEN bs[a - ptr + 1] ELSE m[a]]

\* One indexing of guest memory by the host, as the calls below log it.
Access(kind, ptr, len, size) ==
  [kind |-> kind, ptr |-> ptr, len |-> len, size |-> size,
   ok |-> SliceOK(size, ptr, len)]


\* ------------------------------------------------------------- value codec
\* json.Marshal of a Go string of ASCII bytes: the quoted string, with
\* encoding/json's escapes (HTML escaping on).
HexDigit(n) == IF n < 10 THEN 48 + n ELSE 87 + n

EscapeByte(b) ==
  IF b = 34 \/ b = 92 THEN <<92, b>>
  ELSE IF b = 10 THEN <<92, 110>>
  ELSE IF b = 13 THEN <<92, 114>>
  ELSE IF b = 9 THEN <<92, 116>>
  ELSE IF b < 32 \/ b \in {38, 60, 62}
    THEN <<92, 117, 48, 48, HexDigit(b \div 16), HexDigit(b % 16)>>
    ELSE <<b>>

RECURSIVE EscapeString(_)
EscapeString(s) ==
  IF s = <<>> THEN <<>> ELSE EscapeByte(Head(s)) \o EscapeString(Tail(s))

jsonMarshal(s) == <<34>> \o EscapeString(s) \o <<34>>

\* strconv's decimal text of a non-negative integer.
RECURSIVE Digits(_)
Digits(n) == IF n < 10 THEN <<48 + n>> ELSE Digits(n \div 10) \o <<48 + (n % 10)>>

Itoa(n) == IF n < 0 THEN <<45>> \o Digits(0 - n) ELSE Digits(n)

\* The standard base64 alphabet, and the padded encoding encoding/json
\* gives a []byte.
B64Char(i) ==
  IF i < 26 THEN 65 + i
  ELSE IF i < 52 THEN 71 + i
  ELSE IF i < 62 THEN i - 4
  ELSE IF i = 62 THEN 43 ELSE 47

RECURSIVE Base64(_)
Base64(bs) ==
  IF Len(bs) = 0 THEN <<>>
  ELSE IF Len(bs) = 1
    THEN <<B64Char(bs[1] \div 4), B64Char((bs[1] % 4) * 16), 61, 61>>
  ELSE IF Len(bs) = 2
    THEN <<B64Char(bs[1] \div 4), B64Char((bs[1] % 4) * 16 + bs[2] \div 16),
           B64Char((bs[2] % 16) * 4), 61>>
  ELSE <<B64Char(bs[1] \div 4), B64Char((bs[1] % 4) * 16 + bs[2] \div 16),
         B64Char((bs[2] % 16) * 4 + bs[3] \div 64), B64Char(bs[3] % 64)>>
       \o Base64(SubSeq(bs, 4, Len(bs)))

\* json.Marshal of a Go value of any kind a field can hold: nil, bool, an
\* integer type, float64 (val is its shortest decimal text), string, []byte,
\* a slice, or a string-keyed map (val lists the members in key order, the
\* order encoding/json writes them in).
RECURSIVE Marshal(_)
RECURSIVE MarshalElems(_)
RECURSIVE MarshalMembers(_)
Marshal(v) ==
  CASE v.kind = "null" -> <<110, 117, 108, 108>>
    [] v.kind = "bool" -> IF v.val = <<1>> THEN <<116, 114, 117, 101>>
                          ELSE <<102, 97, 108, 115, 101>>
    [] v.kind = "integer" -> Itoa(v.val)
    [] v.kind = "number" -> v.val
    [] v.kind = "string" -> jsonMarshal(v.val)
    [] v.kind = "bytes" -> <<34>> \o Base64(v.val) \o <<34>>
    [] v.kind = "array" -> <<91>> \o MarshalElems(v.val) \o <<93>>
    [] OTHER -> <<123>> \o MarshalMembers(v.val) \o <<125>>

MarshalElems(es) ==
  IF es = <<>> THEN <<>>
  ELSE Marshal(Head(es))
       \o (IF Len(es) > 1 THEN <<44>> \o MarshalElems(Tail(es)) ELSE <<>>)

MarshalMembers(ms) ==
  IF ms = <<>> THEN <<>>
  ELSE jsonMarshal(Head(ms)[1]) \o <<58>> \o Marshal(Head(ms)[2])
       \o (IF Len(ms) > 1 THEN <<44>> \o MarshalMembers(Tail(ms)) ELSE <<>>)

\* A decoded value (Go's interface{} after json.Unmarshal).
Value(kind, val) == [kind |-> kind, val |-> val]
NoValue == Value("null", <<>>)
ParseFail == [ok |-> FALSE, next |-> 0, v |-> NoValue]
Parsed(next, v) == [ok |-> TRUE, next |-> next, v |-> v]

IsWS(b) == b \in {32, 9, 13, 10}
IsDigit(b) == b >= 48 /\ b <= 57
IsHex(b) == IsDigit(b) \/ (b >= 97 /\ b <= 102) \/ (b >= 65 /\ b <= 70)
HexVal(b) == IF IsDigit(b) THEN b - 48 ELSE IF b >= 97 THEN b - 87 ELSE b - 55

RECURSIVE SkipWS(_, _)
SkipWS(s, i) == IF i <= Len(s) /\ IsWS(s[i]) THEN SkipWS(s, i + 1) ELSE i

RECURSIVE SkipDigits(_, _)
SkipDigits(s, i) ==
  IF i <= Len(s) /\ IsDigit(s[i]) THEN SkipDigits(s, i + 1) ELSE i

\* The index after the JSON number that starts at i, or 0 if none does.
NumberEnd(s, i) ==
  LET a == IF i <= Len(s) /\ s[i] = 45 THEN i + 1 ELSE i
      b == IF a > Len(s) THEN 0
           ELSE IF s[a] = 48 THEN a + 1
           ELSE IF s[a] >= 49 /\ s[a] <= 57 THEN SkipDigits(s, a + 1)
           ELSE 0
      c == IF b = 0 THEN 0
           ELSE IF b <= Len(s) /\ s[b] = 46
             THEN IF b + 1 <= Len(s) /\ IsDigit(s[b + 1])
                    THEN SkipDigits(s, b + 2) ELSE 0
             ELSE b
  IN  IF c = 0 THEN 0
      ELSE IF c <= Len(s) /\ s[c] \in {101, 69}
        THEN LET e == IF c + 1 <= Len(s) /\ s[c + 1] \in {43, 45}
                        THEN c + 2 ELSE c + 1
             IN  IF e <= Len(s) /\ IsDigit(s[e]) THEN SkipDigits(s, e + 1) ELSE 0
        ELSE c

\* The index after the closing quote of the string whose body starts at i,
\* or 0 if the string is malformed.
RECURSIVE StringEnd(_, _)
StringEnd(s, i) ==
  IF i > Len(s) THEN 0
  ELSE IF s[i] = 34 THEN i + 1
  ELSE IF s[i] < 32 THEN 0
  ELSE IF s[i] = 92
    THEN IF i + 1 > Len(s) THEN 0
         ELSE IF s[i + 1] \in {34, 92, 47, 98, 102, 110, 114, 116}
           THEN StringEnd(s, i + 2)
         ELSE IF s[i + 1] = 117
           THEN IF i + 5 <= Len(s) /\ \A k \in 2..5 : IsHex(s[i + k])
                  THEN StringEnd(s, i + 6) ELSE 0
         ELSE 0
  ELSE StringEnd(s, i + 1)

UnescapeChar(b) ==
  CASE b = 98 -> 8 [] b = 102 -> 12 [] b = 110 -> 10 [] b = 114 -> 13
    [] b = 116 -> 9 [] OTHER -> b

\* The characters of a well-formed string body s[i..j-1] (code points; a
\* byte above 127 that is not valid UTF-8 decodes to U+FFFD).
RECURSIVE Unquote(_, _, _)
Unquote(s, i, j) ==
  IF i >= j THEN <<>>
  ELSE IF s[i] = 92
    THEN IF s[i + 1] = 117
           THEN <<HexVal(s[i + 2]) * 4096 + HexVal(s[i + 3]) * 256
                  + HexVal(s[i + 4]) * 16 + HexVal(s[i + 5])>>
                \o Unquote(s, i + 6, j)
           ELSE <<UnescapeChar(s[i + 1])>> \o Unquote(s, i + 2, j)
  ELSE <<(IF s[i] > 127 THEN 65533 ELSE s[i])>> \o Unquote(s, i + 1, j)

ParseString(s, i) ==
  LET e == StringEnd(s, i + 1)
  IN  IF e = 0 THEN ParseFail
      ELSE Parsed(e, Value("string", Unquote(s, i + 1, e - 1)))

HasAt(s, i, w) == i + Len(w) - 1 <= Len(s) /\ SubSeq(s, i, i + Len(w) - 1) = w

RECURSIVE ParseValue(_, _)
RECURSIVE ParseElems(_, _, _)
RECURSIVE ParseMembers(_, _, _)

\* The JSON value that starts at s[i].
ParseValue(s, i) ==
  IF i > Len(s) THEN ParseFail
  ELSE IF s[i] = 34 THEN ParseString(s, i)
  ELSE IF s[i] = 45 \/ IsDigit(s[i])
    THEN LET e == NumberEnd(s, i)
         IN  IF e = 0 THEN ParseFail
             ELSE Parsed(e, Value("number", SubSeq(s, i, e - 1)))
  ELSE IF HasAt(s, i, <<110, 117, 108, 108>>) THEN Parsed(i + 4, NoValue)
  ELSE IF HasAt(s, i, <<116, 114, 117, 101>>)
    THEN Parsed(i + 4, Value("bool", <<1>>))
  ELSE IF HasAt(s, i, <<102, 97, 108, 115, 101>>)
    THEN Parsed(i + 5, Value("bool", <<0>>))
  ELSE IF s[i] = 91
    THEN LET j == SkipWS(s, i + 1)
         IN  IF j <= Len(s) /\ s[j] = 93 THEN Parsed(j + 1, Value("array", <<>>))
             ELSE ParseElems(s, j, <<>>)
  ELSE IF s[i] = 123
    THEN LET j == SkipWS(s, i + 1)
         IN  IF j <= Len(s) /\ s[j] = 125
               THEN Parsed(j + 1, Value("object", <<>>))
               ELSE ParseMembers(s, j, <<>>)
  ELSE ParseFail

\* The elements of an array from s[i] on, after those in acc.
ParseElems(s, i, acc) ==
  LET r == ParseValue(s, i)
      j == SkipWS(s, r.next)
  IN  IF ~r.ok \/ j > Len(s) THEN ParseFail
      ELSE IF s[j] = 93 THEN Parsed(j + 1, Value("array", Append(acc, r.v)))
      ELSE IF s[j] = 44 THEN ParseElems(s, SkipWS(s, j + 1), Append(acc, r.v))
      ELSE ParseFail

\* The members of an object from s[i] on, after those in acc; a repeated
\* key keeps its last value, as a Go map does.
ParseMembers(s, i, acc) ==
  IF i > Len(s) \/ s[i] # 34 THEN ParseFail
  ELSE
    LET k == ParseString(s, i)
        c == SkipWS(s, k.next)
    IN  IF ~k.ok \/ c > Len(s) \/ s[c] # 58 THEN ParseFail
        ELSE
          LET r == ParseValue(s, SkipWS(s, c + 1))
              j == SkipWS(s, r.next)
              kept == SelectSeq(acc, LAMBDA m : m[1] # k.v.val)
              now == Append(kept, <<k.v.val, r.v>>)
          IN  IF ~r.ok \/ j > Len(s) THEN ParseFail
              ELSE IF s[j] = 125 THEN Parsed(j + 1, Value("object", now))
              ELSE IF s[j] = 44 THEN ParseMembers(s, SkipWS(s, j + 1), now)
              ELSE ParseFail

\* json.Unmarshal(data, &v) for v interface{}: one value with white space
\* around it and nothing else; err # nil otherwise.
jsonUnmarshal(data) ==
  LET r == ParseValue(data, SkipWS(data, 1))
  IN  IF r.ok /\ SkipWS(data, r.next) = Len(data) + 1
        THEN [err |-> FALSE, v |-> r.v]
        ELSE [err |-> TRUE, v |-> NoValue]

\* ---------------------------------------------------------- host functions
\* What one host function call leaves behind.  outcome is "return" (a
\* status goes back to the guest), "trap" (the function returned a non-nil
\* error: the engine raises a trap in the guest and drops the results) or
\* "panic" (a Go run-time panic: a slice out of range).
Result(outcome, status, m, size, accesses, mallocs, logged) ==
  [outcome |-> outcome, status |-> status, mem |-> m, size |-> size,
   accesses |-> accesses, mallocs |-> mallocs, logged |-> logged]

\* return results, err: the results reach the guest only when err is nil.
HostReturn(status, err, m, size, accesses, mallocs, logged) ==
  Result(IF err THEN "trap" ELSE "return", status, m, size, accesses,
         mallocs, logged)

\* m.malloc(size): the guest's exported allocator runs.  alloc is what the
\* guest does: fail, or return a pointer, growing its memory or not.
malloc(alloc, n) == [err |-> alloc.err, ptr |-> IF alloc.err THEN 0 ELSE alloc.ptr]

Grown(m, size, by) ==
  [a \in 0..(size + by - 1) |-> IF a < size THEN m[a] ELSE 0]

\* A lookup that answers every name with the "message" field.
Lookup_AnyName(rec, name) == [found |-> TRUE, v |-> rec[MessageName]]

\* The lookup of a field name in the host's record: lines 148-149 know the
\* one name "message".
Lookup(rec, name) ==
  IF name \in DOMAIN rec THEN [found |-> TRUE, v |-> rec[name]]
  ELSE [found |-> FALSE, v |-> NoValue]

\* A miss that zeroes the out_len slot before it returns.
getFieldMiss_ZeroesLen(m, size, rtnLen, accesses, logged) ==
  HostReturn(StatusOK, FALSE,
             IF SliceOK(size, rtnLen, 4) THEN Store(m, rtnLen, <<0, 0, 0, 0>>)
             ELSE m,
             size, accesses, <<>>, logged)

\* getField, line 171: the name is not "message"; return 0, nil.
getFieldMiss(m, size, rtnLen, accesses, logged) ==
  HostReturn(StatusOK, FALSE, m, size, accesses, <<>>, logged)

\* A get_field that writes the out-parameters first and copies the value last.
getField_OutParamsFirst(args, m, size, hasMemory, rec, alloc) ==
  IF Len(args) # 4
    THEN HostReturn(StatusOK, TRUE, m, size, <<>>, <<>>, <<>>)
  ELSE
  LET dataPtr == args[1]
      dataLen == args[2]
      rtnPtr == args[3]
      rtnLen == args[4]
      a1 == Access("read", dataPtr, dataLen, size)
  IN
  IF ~hasMemory THEN HostReturn(StatusOK, TRUE, m, size, <<>>, <<>>, <<>>)
  ELSE IF ~a1.ok THEN Result("panic", StatusOK, m, size, <<a1>>, <<>>, <<>>)
  ELSE
  LET data == Bytes(m, dataPtr, dataLen)
      line == <<"get_field", data>>
      hit == Lookup(rec, data)
  IN
  IF ~hit.found THEN getFieldMiss(m, size, rtnLen, <<a1>>, <<line>>)
  ELSE
  LET value == jsonMarshal(hit.v.val)
      valueSize == Len(value)
      got == malloc(alloc, valueSize)
      call == [size |-> valueSize, err |-> got.err, ptr |-> got.ptr]
      size1 == IF alloc.grow THEN size + GrowBy ELSE size
      m1 == IF alloc.grow THEN Grown(m, size, GrowBy) ELSE m
      valuePtr == got.ptr
      a3 == Access("write", rtnPtr, 4, size1)
      m2 == Store(m1, rtnPtr, PutUint32(valuePtr))
      a4 == Access("write", rtnLen, 4, size1)
      m3 == Store(m2, rtnLen, PutUint32(valueSize))
      a2 == Access("write", valuePtr, valueSize, size1)
      m4 == Store(m3, valuePtr, value)
  IN
  IF got.err
    THEN HostReturn(StatusOK, TRUE, m1, size1, <<a1>>, <<call>>, <<line>>)
  ELSE IF ~a3.ok
    THEN Result("panic", StatusOK, m1, size1, <<a1, a3>>, <<call>>, <<line>>)
  ELSE IF ~a4.ok
    THEN Result("panic", StatusOK, m2, size1, <<a1, a3, a4>>, <<call>>, <<line>>)
  ELSE IF ~a2.ok
    THEN Result("panic", StatusOK, m3, size1, <<a1, a3, a4, a2>>, <<call>>,
                <<line>>)
  ELSE HostReturn(StatusOK, FALSE, m4, size1, <<a1, a3, a4, a2>>, <<call>>,
                  <<line>>)

\* A get_field that checks every access against the view it took on entry.
getField_StaleView(args, m, size, hasMemory, rec, alloc) ==
  IF Len(args) # 4
    THEN HostReturn(StatusOK, TRUE, m, size, <<>>, <<>>, <<>>)
  ELSE
  LET dataPtr == args[1]
      dataLen == args[2]
      rtnPtr == args[3]
      rtnLen == args[4]
      a1 == Access("read", dataPtr, dataLen, size)
  IN
  IF ~hasMemory THEN HostReturn(StatusOK, TRUE, m, size, <<>>, <<>>, <<>>)
  ELSE IF ~a1.ok THEN Result("panic", StatusOK, m, size, <<a1>>, <<>>, <<>>)
  ELSE
  LET data == Bytes(m, dataPtr, dataLen)
      line == <<"get_field", data>>
      hit == Lookup(rec, data)
  IN
  IF ~hit.found THEN getFieldMiss(m, size, rtnLen, <<a1>>, <<line>>)
  ELSE
  LET value == jsonMarshal(hit.v.val)
      valueSize == Len(value)
      got == malloc(alloc, valueSize)
      call == [size |-> valueSize, err |-> got.err, ptr |-> got.ptr]
      size1 == IF alloc.grow THEN size + GrowBy ELSE size
      m1 == IF alloc.grow THEN Grown(m, size, GrowBy) ELSE m
      valuePtr == got.ptr
      a2 == Access("write", valuePtr, valueSize, size)
      m2 == Store(m1, valuePtr, value)
      a3 == Access("write", rtnPtr, 4, size)
      m3 == Store(m2, rtnPtr, PutUint32(valuePtr))
      a4 == Access("write", rtnLen, 4, size)
      m4 == Store(m3, rtnLen, PutUint32(valueSize))
  IN
  IF got.err
    THEN HostReturn(StatusOK, TRUE, m1, size1, <<a1>>, <<call>>, <<line>>)
  ELSE IF ~a2.ok
    THEN Result("panic", StatusOK, m1, size1, <<a1, a2>>, <<call>>, <<line>>)
  ELSE IF ~a3.ok
    THEN Result("panic", StatusOK, m2, size1, <<a1, a2, a3>>, <<call>>, <<line>>)
  ELSE IF ~a4.ok
    THEN Result("panic", StatusOK, m3, size1, <<a1, a2, a3, a4>>, <<call>>,
                <<line>>)
  ELSE HostReturn(StatusOK, FALSE, m4, size1, <<a1, a2, a3, a4>>, <<call>>,
                  <<line>>)

getField(args, m, size, hasMemory, rec, alloc) ==
  IF Len(args) # 4
    THEN HostReturn(StatusOK, TRUE, m, size, <<>>, <<>>, <<>>)
  ELSE
  LET dataPtr == args[1]
      dataLen == args[2]
      rtnPtr == args[3]
      rtnLen == args[4]
      a1 == Access("read", dataPtr, dataLen, size)
  IN
  IF ~hasMemory THEN HostReturn(StatusOK, TRUE, m, size, <<>>, <<>>, <<>>)
  ELSE IF ~a1.ok THEN Result("panic", StatusOK, m, size, <<a1>>, <<>>, <<>>)
  ELSE
  LET data == Bytes(m, dataPtr, dataLen)
      line == <<"get_field", data>>
      hit == Lookup(rec, data)
  IN
  IF ~hit.found THEN getFieldMiss(m, size, rtnLen, <<a1>>, <<line>>)
  ELSE
  LET value == jsonMarshal(hit.v.val)
      valueSize == Len(value)
      got == malloc(alloc, valueSize)
      call == [size |-> valueSize, err |-> got.err, ptr |-> got.ptr]
      size1 == IF alloc.grow THEN size + GrowBy ELSE size
      m1 == IF alloc.grow THEN Grown(m, size, GrowBy) ELSE m
      valuePtr == got.ptr
      a2 == Access("write", valuePtr, valueSize, size1)
      m2 == Store(m1, valuePtr, value)
      a3 == Access("write", rtnPtr, 4, size1)
      m3 == Store(m2, rtnPtr, PutUint32(valuePtr))
      a4 == Access("write", rtnLen, 4, size1)
      m4 == Store(m3, rtnLen, PutUint32(valueSize))
  IN
  IF got.err
    THEN HostReturn(StatusOK, TRUE, m1, size1, <<a1>>, <<call>>, <<line>>)
  ELSE IF ~a2.ok
    THEN Result("panic", StatusOK, m1, size1, <<a1, a2>>, <<call>>, <<line>>)
  ELSE IF ~a3.ok
    THEN Result("panic", StatusOK, m2, size1, <<a1, a2, a3>>, <<call>>, <<line>>)
  ELSE IF ~a4.ok
    THEN Result("panic", StatusOK, m3, size1, <<a1, a2, a3, a4>>, <<call>>,
                <<line>>)
  ELSE HostReturn(StatusOK, FALSE, m4, size1, <<a1, a2, a3, a4>>, <<call>>,
                  <<line>>)

putField(args, m, size, hasMemory) ==
  IF Len(args) # 4
    THEN HostReturn(StatusOK, TRUE, m, size, <<>>, <<>>, <<>>)
  ELSE
  LET keyPtr == args[1]
      keyLen == args[2]
      valuePtr == args[3]
      valueLen == args[4]
      a1 == Access("read", keyPtr, keyLen, size)
      a2 == Access("read", valuePtr, valueLen, size)
  IN
  IF ~hasMemory
    THEN HostReturn(StatusInternalFailure, TRUE, m, size, <<>>, <<>>, <<>>)
  ELSE IF ~a1.ok THEN Result("panic", StatusOK, m, size, <<a1>>, <<>>, <<>>)
  ELSE IF ~a2.ok THEN Result("panic", StatusOK, m, size, <<a1, a2>>, <<>>, <<>>)
  ELSE
  LET key == Bytes(m, keyPtr, keyLen)
      value == Bytes(m, valuePtr, valueLen)
      line == <<"put_field", key, value>>
      dec == jsonUnmarshal(value)
  IN
  IF dec.err
    THEN HostReturn(StatusInvalidArgument, TRUE, m, size, <<a1, a2>>, <<>>,
                    <<line>>)
    ELSE HostReturn(StatusOK, FALSE, m, size, <<a1, a2>>, <<>>,
                    <<line, <<"put_field=", key, dec.v>> >>)

log(args, m, size, hasMemory) ==
  IF Len(args) # 3
    THEN HostReturn(StatusOK, TRUE, m, size, <<>>, <<>>, <<>>)
  ELSE
  LET level == args[1]
      dataPtr == args[2]
      dataLen == args[3]
      a1 == Access("read", dataPtr, dataLen, size)
  IN
  IF ~hasMemory THEN HostReturn(StatusOK, TRUE, m, size, <<>>, <<>>, <<>>)
  ELSE IF ~a1.ok THEN Result("panic", StatusOK, m, size, <<a1>>, <<>>, <<>>)
  ELSE HostReturn(StatusOK, FALSE, m, size, <<a1>>, <<>>,
                  << <<"log", level, Bytes(m, dataPtr, dataLen)>> >>)

getCurrentTime(args, m, size, hasMemory, now) ==
  IF Len(args) # 1
    THEN HostReturn(StatusOK, TRUE, m, size, <<>>, <<>>, <<>>)
  ELSE
  LET ptr == args[1]
      a1 == Access("write", ptr, 8, size)
  IN
  IF ~hasMemory THEN HostReturn(StatusOK, TRUE, m, size, <<>>, <<>>, <<>>)
  ELSE IF ~a1.ok THEN Result("panic", StatusOK, m, size, <<a1>>, <<>>, <<>>)
  ELSE HostReturn(StatusOK, FALSE, Store(m, ptr, PutUint64(now)), size, <<a1>>,
                  <<>>, <<>>)

\* ------------------------------------------------------------------ state
VARIABLES
  pc,           \* where main is: the statement it executes next
  binary,       \* the guest binary read from disk: what it is good for
  mem,          \* the instance's linear memory, address -> byte
  memSize,      \* its current size in bytes
  record,       \* the host's record: field name -> value
  calls,        \* host function calls the guest has made
  invocations,  \* times m.processFunc was called
  reported,     \* the return code main logged, once it has
  guestRtn,     \* the integer the guest's process returned, once it has
  last,         \* the last host function call and what it did
  times,        \* the times get_current_time has written in this run, in call order
  codecPc,      \* the value codec: "idle", "value", "encoded" or "decoded"
  fieldValue,   \* the value handed to the encoder
  encoded,      \* the bytes json.Marshal gave for it
  decoded,      \* what json.Unmarshal made of those bytes
  resolvePc,    \* ResolveECSReferences: "idle", "loop" or "returned"
  catalogue,    \* the ECS fields and field sets package ecs knows
  flat,         \* the fields handed to ResolveECSReferences
  pos,          \* the index in flat of the field the loop takes next
  out,          \* the fields appended so far
  hasUnresolved, \* the flag ResolveECSReferences returns
  boundsPc,     \* one indexing of a large memory: "idle", "args" or "sliced"
  pages,        \* the size of that memory in 64 KiB pages
  argPtr,       \* the pointer the guest passed: 32 bits as <<low 16, high 16>>
  argLen,       \* the length the guest passed, likewise
  sliced        \* "ok" once the slice was taken, "panic" once Go refused it

hostVars ==
  <<pc, binary, mem, memSize, record, calls, invocations, reported, guestRtn,
    last, times>>

codecVars == <<codecPc, fieldValue, encoded, decoded>>

resolveVars == <<resolvePc, catalogue, flat, pos, out, hasUnresolved>>

boundsVars == <<boundsPc, pages, argPtr, argLen, sliced>>

vars == <<hostVars, codecVars, resolveVars, boundsVars>>

\* The guest binaries main may find on disk.
Binaries ==
  [readable : BOOLEAN, compiles : BOOLEAN, links : BOOLEAN,
   hasMalloc : BOOLEAN, hasProcess : BOOLEAN, hasMemory : BOOLEAN]

\* The guest's data segment: "message", then the JSON text "hi", 7 and x,
\* then zeroes, with eight non-zero bytes where the guest keeps its
\* out-parameter slots (64..71).
Image ==
  LET data == MessageName \o <<34, 104, 105, 34, 55, 120>>
  IN  [a \in 0..(InitMemSize - 1) |->
         IF a < Len(data) THEN data[a + 1]
         ELSE IF a >= 64 /\ a < 72 THEN 9
         ELSE 0]

\* (pointer, length) pairs the guest passes for a name, a message or a value.
DataPairs ==
  { <<0, 7>>, <<0, 3>>, <<7, 4>>, <<12, 1>>,
    <<InitMemSize, 0>>, <<InitMemSize - 3, 7>>,
    <<-1, 4>>, <<4, -1>>, <<MaxInt32, 1>>, <<MinInt32, MinInt32>> }

KeyPairs == { <<0, 7>>, <<0, 3>>, <<InitMemSize - 3, 7>>, <<-1, 4>> }

\* (out_ptr, out_len) slot addresses the guest passes to get_field.
SlotPairs ==
  { <<64, 68>>, <<64, 64>>, <<20, 68>>, <<64, 20>>,
    <<InitMemSize - 2, 68>>, <<64, -4>> }

\* What the guest's malloc may do when the host calls it.
Allocs ==
  { [err |-> TRUE, ptr |-> 0, grow |-> FALSE] }
  \cup [err : {FALSE}, ptr : {16, 40, -1}, grow : BOOLEAN]

Levels == { LogLevelDebug, LogLevelError, LogLevelCritical + 5 }

TimePtrs == { 72, InitMemSize - 4, -8, MaxInt32 - 3 }

\* Readings of time.Now().UnixNano(), as four 16-bit limbs.
Nows == { <<513, 0, 0, 6200>>, <<2, 1, 0, 6200>> }

\* The codec before any value has been handed to it.
NoDecode == [err |-> FALSE, v |-> NoValue]

CodecIdle ==
  /\ codecPc = "idle"
  /\ fieldValue = NoValue
  /\ encoded = <<>>
  /\ decoded = NoDecode

\* ResolveECSReferences before it is called.
NoCatalogue == [field |-> <<>>, set |-> <<>>]

ResolveIdle ==
  /\ resolvePc = "idle"
  /\ catalogue = NoCatalogue
  /\ flat = <<>>
  /\ pos = 0
  /\ out = <<>>
  /\ hasUnresolved = FALSE

\* No indexing of a large memory under way.
BoundsIdle ==
  /\ boundsPc = "idle"
  /\ pages = 0
  /\ argPtr = <<0, 0>>
  /\ argLen = <<0, 0>>
  /\ sliced = "none"

NoCall ==
  [op |-> "none", args |-> <<>>, outcome |-> "return", status |-> StatusOK,
   accesses |-> <<>>, mallocs |-> <<>>, logged |-> <<>>,
   before |-> <<>>, sizeBefore |-> 0, after |-> <<>>, sizeAfter |-> 0,
   recordBefore |-> <<>>, recordAfter |-> <<>>, now |-> <<>>]

HostInit ==
  /\ pc = "ReadFile"
  /\ binary \in Binaries
  /\ mem = <<>>
  /\ memSize = 0
  /\ record = (MessageName :> Value("string", Raw))
  /\ calls = 0
  /\ invocations = 0
  /\ reported = [set |-> FALSE, rc |-> 0]
  /\ guestRtn = [set |-> FALSE, rc |-> 0]
  /\ last = NoCall
  /\ times = <<>>

Init == HostInit /\ CodecIdle /\ ResolveIdle /\ BoundsIdle

\* ------------------------------------------------- supervisor, module host
\* main: ioutil.ReadFile; panic(err) when it fails.
ReadFile ==
  /\ pc = "ReadFile"
  /\ pc' = IF binary.readable THEN "NewModule" ELSE "Panic"
  /\ UNCHANGED <<binary, mem, memSize, record, calls, invocations, reported,
                 guestRtn, last, times, codecVars, resolveVars, boundsVars>>

\* newWasmModule: wasmer.NewModule; an error goes back to main's log.Fatal.
NewModule ==
  /\ pc = "NewModule"
  /\ pc' = IF binary.compiles THEN "NewInstance" ELSE "Fatal"
  /\ UNCHANGED <<binary, mem, memSize, record, calls, invocations, reported,
                 guestRtn, last, times, codecVars, resolveVars, boundsVars>>

\* newWasmModule: wasmer.NewInstance with the import object.
NewInstance ==
  /\ pc = "NewInstance"
  /\ IF binary.links
       THEN /\ pc' = "GetMalloc"
            /\ mem' = Image
            /\ memSize' = InitMemSize
       ELSE /\ pc' = "Fatal"
            /\ UNCHANGED <<mem, memSize>>
  /\ UNCHANGED <<binary, record, calls, invocations, reported, guestRtn, last, times, codecVars, resolveVars, boundsVars>>

\* A lookup of malloc whose error is dropped.
GetMalloc_IgnoresError ==
  /\ pc = "GetMalloc"
  /\ pc' = "GetProcess"
  /\ UNCHANGED <<binary, mem, memSize, record, calls, invocations, reported,
                 guestRtn, last, times, codecVars, resolveVars, boundsVars>>

\* newWasmModule: Exports.GetFunction("malloc").
GetMalloc ==
  /\ pc = "GetMalloc"
  /\ pc' = IF binary.hasMalloc THEN "GetProcess" ELSE "Fatal"
  /\ UNCHANGED <<binary, mem, memSize, record, calls, invocations, reported,
                 guestRtn, last, times, codecVars, resolveVars, boundsVars>>

\* newWasmModule: Exports.GetFunction("process"), then return wm, nil.
GetProcess ==
  /\ pc = "GetProcess"
  /\ pc' = IF binary.hasProcess THEN "process" ELSE "Fatal"
  /\ UNCHANGED <<binary, mem, memSize, record, calls, invocations, reported,
                 guestRtn, last, times, codecVars, resolveVars, boundsVars>>

\* main: wm.process() calls m.processFunc(); the guest starts to run.
Invoke ==
  /\ pc = "process"
  /\ pc' = "Running"
  /\ invocations' = invocations + 1
  /\ UNCHANGED <<binary, mem, memSize, record, calls, reported, guestRtn, last, times, codecVars, resolveVars, boundsVars>>

\* A process that hands main 0 whatever the guest returned.
process_DropsRtn(rtn, err) == [rc |-> 0, err |-> err]

\* wasmModule.process: what it hands main for what m.processFunc gave.
process(rtn, err) ==
  IF err THEN [rc |-> 0, err |-> TRUE] ELSE [rc |-> rtn, err |-> FALSE]

\* A main that calls wm.process() again when it failed.
AfterProcess_Retry(rtn, err) ==
  LET r == process(rtn, err)
  IN  IF r.err
        THEN /\ pc' = "process"
             /\ UNCHANGED reported
        ELSE /\ pc' = "Done"
             /\ reported' = [set |-> TRUE, rc |-> r.rc]

\* main after wm.process(): log.Fatal on an error, else log the return code.
AfterProcess(rtn, err) ==
  LET r == process(rtn, err)
  IN  IF r.err
        THEN /\ pc' = "Fatal"
             /\ UNCHANGED reported
        ELSE /\ pc' = "Done"
             /\ reported' = [set |-> TRUE, rc |-> r.rc]

\* The Module Host / Instance lifecycle state, read off main's position.
State ==
  CASE pc \in {"ReadFile", "NewModule"} -> "Unloaded"
    [] pc = "NewInstance" -> "Compiled"
    [] pc \in {"GetMalloc", "GetProcess", "process"} -> "Instantiated"
    [] pc = "Running" -> "Invoked"
    [] pc = "Done" -> "Completed"
    [] OTHER -> "Failed"

\* The status the host process exits with, once main has ended: 0 after
\* main returns, 1 after log.Fatal, 2 after a panic.
ExitCode ==
  CASE pc = "Done" -> 0 [] pc = "Fatal" -> 1 [] pc = "Panic" -> 2
    [] OTHER -> -1

\* The guest's process returns rc.
GuestReturn ==
  /\ pc = "Running"
  /\ \E rc \in {0, 1, -1, MaxInt32} :
       /\ guestRtn' = [set |-> TRUE, rc |-> rc]
       /\ AfterProcess(rc, FALSE)
  /\ UNCHANGED <<binary, mem, memSize, record, calls, invocations, last, times, codecVars, resolveVars, boundsVars>>

\* The guest traps on its own (unreachable, a fault of its own).
GuestTrap ==
  /\ pc = "Running"
  /\ AfterProcess(0, TRUE)
  /\ UNCHANGED <<binary, mem, memSize, record, calls, invocations, guestRtn,
                 last, times, codecVars, resolveVars, boundsVars>>

\* The guest grows its memory between host calls.
GuestGrow ==
  /\ pc = "Running"
  /\ memSize + GrowBy <= MaxMemSize
  /\ mem' = Grown(mem, memSize, GrowBy)
  /\ memSize' = memSize + GrowBy
  /\ UNCHANGED <<pc, binary, record, calls, invocations, reported, guestRtn,
                 last, times, codecVars, resolveVars, boundsVars>>

\* ------------------------------------------------------- the guest's calls
\* A host function call ends: a status returns to the running guest, a trap
\* ends process() with an error (main: log.Fatal), a panic ends the host.
\* A host in which serving a field hands it over: get_field empties the record.
RecordAfter_GetFieldTakes(op, rec) ==
  IF op = "get_field" THEN [n \in {} |-> NoValue] ELSE rec

\* The host's record after a host function has run: no host function assigns
\* to it (get_field serves the literal of its own body, put_field decodes the
\* value, prints it and drops it).
RecordAfter(op, rec) == rec

Finish(op, args, now, r) ==
  /\ mem' = r.mem
  /\ memSize' = r.size
  /\ record' = RecordAfter(op, record)
  /\ calls' = calls + 1
  /\ last' = [op |-> op, args |-> args, outcome |-> r.outcome,
              status |-> r.status, accesses |-> r.accesses,
              mallocs |-> r.mallocs, logged |-> r.logged,
              before |-> mem, sizeBefore |-> memSize,
              after |-> mem', sizeAfter |-> memSize',
              recordBefore |-> record, recordAfter |-> record', now |-> now]
  /\ times' = IF op = "get_current_time" /\ r.outcome = "return"
                   /\ r.status = StatusOK
               THEN Append(times, [now |-> now, ptr |-> args[1],
                                   wrote |-> Bytes(r.mem, args[1], 8)])
               ELSE times
  /\ IF r.outcome = "return" THEN UNCHANGED <<pc, reported>>
     ELSE IF r.outcome = "trap" THEN AfterProcess(0, TRUE)
     ELSE pc' = "Panic" /\ UNCHANGED reported
  /\ UNCHANGED <<binary, invocations, guestRtn, codecVars, resolveVars, boundsVars>>

CanGrow == memSize + GrowBy <= MaxMemSize

CallGetField ==
  /\ pc = "Running"
  /\ calls < MaxCalls
  /\ \E d \in DataPairs, s \in SlotPairs, alloc \in Allocs :
       /\ alloc.grow => CanGrow
       /\ LET args == <<d[1], d[2], s[1], s[2]>>
          IN  Finish("get_field", args, <<>>,
                     getField(args, mem, memSize, binary.hasMemory, record, alloc))

CallPutField ==
  /\ pc = "Running"
  /\ calls < MaxCalls
  /\ \E k \in KeyPairs, v \in DataPairs :
       LET args == <<k[1], k[2], v[1], v[2]>>
       IN  Finish("put_field", args, <<>>,
                  putField(args, mem, memSize, binary.hasMemory))

CallLog ==
  /\ pc = "Running"
  /\ calls < MaxCalls
  /\ \E level \in Levels, d \in DataPairs :
       LET args == <<level, d[1], d[2]>>
       IN  Finish("log", args, <<>>, log(args, mem, memSize, binary.hasMemory))

CallGetCurrentTime ==
  /\ pc = "Running"
  /\ calls < MaxCalls
  /\ \E ptr \in TimePtrs, now \in Nows :
       Finish("get_current_time", <<ptr>>, now,
              getCurrentTime(<<ptr>>, mem, memSize, binary.hasMemory, now))

Next ==
  \/ ReadFile
  \/ NewModule
  \/ NewInstance
  \/ GetMalloc
  \/ GetProcess
  \/ Invoke
  \/ GuestReturn
  \/ GuestTrap
  \/ GuestGrow
  \/ CallGetField
  \/ CallPutField
  \/ CallLog
  \/ CallGetCurrentTime

Spec == Init /\ [][Next]_vars

\* ------------------------------------------------------ the value codec
\* The codec on its own: a value of any kind goes through json.Marshal as in
\* get_field, and the bytes through json.Unmarshal as in put_field.
MaxElems == 2

Scalars ==
  { NoValue, Value("bool", <<1>>), Value("bool", <<0>>),
    Value("integer", 0), Value("integer", 5), Value("integer", -12),
    Value("number", <<49, 46, 53>>), Value("number", <<45, 48, 46, 50, 53>>),
    Value("bytes", <<104, 105>>) }

Chars == {104, 34, 60, 10, 92}

Strings ==
  { Value("string", s) : s \in UNION { [1..n -> Chars] : n \in 0..MaxElems } }

ByteSeqs ==
  { Value("bytes", b) : b \in UNION { [1..n -> {0, 104, 255}] : n \in 1..3 } }

Arrays ==
  { Value("array", a) :
      a \in UNION { [1..n -> Scalars \cup {Value("array", <<NoValue>>),
                                           Value("string", <<104>>)}] :
                    n \in 0..MaxElems } }

Objects ==
  { Value("object", <<>>) }
  \cup { Value("object", << <<(<<97>>), x>> >>) : x \in Scalars }
  \cup { Value("object", << <<(<<97>>), x>>, <<(<<98>>), Value("string", <<104>>)>> >>) :
           x \in Scalars }

FieldValues == Scalars \cup Strings \cup ByteSeqs \cup Arrays \cup Objects

NoBinary ==
  [readable |-> FALSE, compiles |-> FALSE, links |-> FALSE,
   hasMalloc |-> FALSE, hasProcess |-> FALSE, hasMemory |-> FALSE]

CodecInit ==
  /\ HostInit
  /\ binary = NoBinary
  /\ codecPc = "value"
  /\ fieldValue \in FieldValues
  /\ encoded = <<>>
  /\ decoded = NoDecode
  /\ ResolveIdle
  /\ BoundsIdle

\* value, err := json.Marshal(raw)
Encode ==
  /\ codecPc = "value"
  /\ encoded' = Marshal(fieldValue)
  /\ codecPc' = "encoded"
  /\ UNCHANGED <<hostVars, fieldValue, decoded, resolveVars, boundsVars>>

\* var v interface{}; err := json.Unmarshal(value, &v)
Decode ==
  /\ codecPc = "encoded"
  /\ decoded' = jsonUnmarshal(encoded)
  /\ codecPc' = "decoded"
  /\ UNCHANGED <<hostVars, fieldValue, encoded, resolveVars, boundsVars>>

CodecNext == Encode \/ Decode

CodecSpec == CodecInit /\ [][CodecNext]_vars

\* ------------------------------------------------- ResolveECSReferences
\* The function on its own, one loop iteration per step.
MaxFlat == 2

FlatField(name, type, description, external, source, sourceLine) ==
  [Name |-> name, Type |-> type, Description |-> description,
   External |-> external, Source |-> source, SourceLine |-> sourceLine]

\* What package ecs may hold: ecs.GetField finds a field by name,
\* ecs.GetFieldSet the fields of a field set, in order.
EcsField(flatName, type) ==
  [FlatName |-> flatName, Type |-> type, Description |-> "about " \o flatName]

Catalogues ==
  { [field |-> ("host.name" :> EcsField("host.name", "keyword")),
     set |-> ("host" :> <<EcsField("host.ip", "ip"),
                           EcsField("host.name", "keyword")>>)],
    [field |-> ("host.name" :> EcsField("host.name", "keyword")
                @@ "host" :> EcsField("host", "object")),
     set |-> ("host" :> <<EcsField("host.ip", "ip")>>)],
    [field |-> <<>>,
     set |-> ("host" :> <<EcsField("host.ip", "ip"),
                           EcsField("host.name", "keyword")>>)] }

\* The fields a fields.yml may list.
InputFields ==
  { FlatField("host.name", "", "", "ecs", "a.yml", 3),
    FlatField("host", "", "", "ecs", "a.yml", 7),
    FlatField("nope", "", "", "ecs", "b.yml", 3),
    FlatField("host.name", "text", "mine", "", "b.yml", 9),
    FlatField("nope", "long", "", "", "a.yml", 1),
    FlatField("host", "group", "", "other", "b.yml", 2) }

GetField(cat, name) ==
  IF name \in DOMAIN cat.field THEN <<cat.field[name]>> ELSE <<>>

GetFieldSet(cat, name) ==
  IF name \in DOMAIN cat.set THEN cat.set[name] ELSE <<>>

FromEcs(f) == FlatField(f.FlatName, f.Type, f.Description, "ecs", "", 0)

lookupECSField(cat, name) ==
  IF GetField(cat, name) # <<>> THEN <<FromEcs(GetField(cat, name)[1])>>
  ELSE [k \in DOMAIN GetFieldSet(cat, name) |-> FromEcs(GetFieldSet(cat, name)[k])]

\* A resolution that copies the file of the reference and leaves the line.
Stamp_SourceOnly(ecsField, f) == [ecsField EXCEPT !.Source = f.Source]

\* ecsField.Source = f.Source; ecsField.SourceLine = f.SourceLine
Stamp(ecsField, f) ==
  [ecsField EXCEPT !.Source = f.Source, !.SourceLine = f.SourceLine]

ResolveInit ==
  /\ HostInit
  /\ binary = NoBinary
  /\ CodecIdle
  /\ BoundsIdle
  /\ resolvePc = "loop"
  /\ catalogue \in Catalogues
  /\ flat \in UNION { [1..n -> InputFields] : n \in 0..MaxFlat }
  /\ pos = 1
  /\ out = <<>>
  /\ hasUnresolved = FALSE

\* if f.External != "ecs" { out = append(out, f); continue }
KeepField ==
  /\ resolvePc = "loop"
  /\ pos <= Len(flat)
  /\ flat[pos].External # "ecs"
  /\ out' = Append(out, flat[pos])
  /\ pos' = pos + 1
  /\ UNCHANGED <<hostVars, codecVars, boundsVars, resolvePc, catalogue, flat,
                 hasUnresolved>>

\* if len(fields) == 0 { hasUnresolved = true; out = append(out, f); continue }
KeepUnresolved ==
  /\ resolvePc = "loop"
  /\ pos <= Len(flat)
  /\ flat[pos].External = "ecs"
  /\ Len(lookupECSField(catalogue, flat[pos].Name)) = 0
  /\ hasUnresolved' = TRUE
  /\ out' = Append(out, flat[pos])
  /\ pos' = pos + 1
  /\ UNCHANGED <<hostVars, codecVars, boundsVars, resolvePc, catalogue, flat>>

\* for _, ecsField := range fields { ...; out = append(out, ecsField) }
ExpandReference ==
  /\ resolvePc = "loop"
  /\ pos <= Len(flat)
  /\ flat[pos].External = "ecs"
  /\ LET fields == lookupECSField(catalogue, flat[pos].Name)
     IN  /\ Len(fields) # 0
         /\ out' = out \o [k \in DOMAIN fields |-> Stamp(fields[k], flat[pos])]
  /\ pos' = pos + 1
  /\ UNCHANGED <<hostVars, codecVars, boundsVars, resolvePc, catalogue, flat,
                 hasUnresolved>>

\* return out, hasUnresolved
ResolveReturn ==
  /\ resolvePc = "loop"
  /\ pos > Len(flat)
  /\ resolvePc' = "returned"
  /\ UNCHANGED <<hostVars, codecVars, boundsVars, catalogue, flat, pos, out,
                 hasUnresolved>>

ResolveNext == KeepField \/ KeepUnresolved \/ ExpandReference \/ ResolveReturn

ResolveSpec == ResolveInit /\ [][ResolveNext]_vars

\* -------------------------------------------- indexing a large memory
\* One memory.Data()[ptr : ptr+len] on a memory of up to 65536 pages, with
\* the 32-bit arguments as the guest passed them.
\* args[k].I32(): the 32 bits read as a Go int32.
I32(u) ==
  IF u[2] >= 32768 THEN (u[2] - 65536) * 65536 + u[1] ELSE u[2] * 65536 + u[1]

\* The slice expression on a memory of this many pages; from 32768 pages on
\* the capacity is above every int32, so only 0 <= lo <= hi is left to fail.
DataSliceOK(npages, ptr, len) ==
  IF npages >= 32768 THEN 0 <= ptr /\ ptr <= Add32(ptr, len)
  ELSE SliceOK(npages * 65536, ptr, len)

MemoryPages == {1, 2, 32767, 32768, 32769, 65536}

Pointers == {0, 65532, 65535} \X {0, 1, 32767, 32768, 65535}

Lengths == {0, 4, 8} \X {0, 1, 32768, 65535}

BoundsInit ==
  /\ HostInit
  /\ binary = NoBinary
  /\ CodecIdle
  /\ ResolveIdle
  /\ boundsPc = "args"
  /\ pages \in MemoryPages
  /\ argPtr \in Pointers
  /\ argLen \in Lengths
  /\ sliced = "none"

\* data := memory.Data()[dataPtr : dataPtr+dataLen], in range
SliceTaken ==
  /\ boundsPc = "args"
  /\ DataSliceOK(pages, I32(argPtr), I32(argLen))
  /\ boundsPc' = "sliced"
  /\ sliced' = "ok"
  /\ UNCHANGED <<hostVars, codecVars, resolveVars, pages, argPtr, argLen>>

\* the same, out of range: a run-time panic
SlicePanics ==
  /\ boundsPc = "args"
  /\ ~DataSliceOK(pages, I32(argPtr), I32(argLen))
  /\ boundsPc' = "sliced"
  /\ sliced' = "panic"
  /\ UNCHANGED <<hostVars, codecVars, resolveVars, pages, argPtr, argLen>>

BoundsNext == SliceTaken \/ SlicePanics

BoundsSpec == BoundsInit /\ [][BoundsNext]_vars

\* ================================================================= claims
\* As unsigned 32-bit offsets, ptr + len overflows 32 bits or exceeds size:
\* a negative int32 is an offset of 2^31 or more, beyond any memory here.
InvalidPair(ptr, len, size) == ptr < 0 \/ len < 0 \/ len > size - ptr

\* The addresses a [ptr, ptr+len) that lies inside memory covers.
Range(ptr, len) == {a \in 0..(MaxMemSize - 1) : a >= ptr /\ a - ptr < len}

\* The addresses the write accesses before the i-th of the last call cover.
WrittenBefore(i) ==
  UNION { Range(last.accesses[j].ptr, last.accesses[j].len) :
            j \in {k \in 1..(i - 1) : last.accesses[k].kind = "write"} }

\* C1: a host function's memory access whose (pointer, length) pair
\* overflows 32 bits or exceeds the memory size current at the access fails:
\* it is the call's last access, the call ends in the out-of-bounds panic,
\* and memory holds what it held before the call except where the call's
\* earlier accesses wrote (the failed access read and wrote nothing).
C1_InvalidAccessFails ==
  \A i \in DOMAIN last.accesses :
    LET a == last.accesses[i]
    IN  InvalidPair(a.ptr, a.len, a.size) =>
          /\ ~a.ok
          /\ i = Len(last.accesses)
          /\ last.outcome = "panic"
          /\ pc = "Panic"
          /\ \A addr \in DOMAIN last.before :
               addr \notin WrittenBefore(i) =>
                 last.after[addr] = last.before[addr]

\* C1 witness: get_field's last write (the out_len slot) was out of bounds,
\* after the copy and the out_ptr write went through.
C1_Witness ==
  /\ last.op = "get_field"
  /\ Len(last.accesses) = 4
  /\ InvalidPair(last.accesses[4].ptr, last.accesses[4].len,
                 last.accesses[4].size)
  /\ last.after # last.before

\* ------------------------------------------------ the last call, as seen
\* The name, key or message bytes the last call read first.
LastData == Bytes(last.before, last.args[1], last.args[2])

\* The uint32 the guest reads at addr, least significant byte first.
ReadUint32(m, addr) ==
  m[addr] + 256 * m[addr + 1] + 65536 * m[addr + 2] + 16777216 * m[addr + 3]

\* The last call was get_field, and it read its field name.
GetFieldRead ==
  /\ last.op = "get_field"
  /\ Len(last.accesses) >= 1
  /\ last.accesses[1].ok

\* ... and the name is a field of the record / is not.
GetFieldHit == GetFieldRead /\ LastData \in DOMAIN last.recordBefore
GetFieldMiss == GetFieldRead /\ LastData \notin DOMAIN last.recordBefore

\* ... a hit that returned OK to the guest.
GetFieldHitOK ==
  GetFieldHit /\ last.outcome = "return" /\ last.status = StatusOK

Disjoint(p1, n1, p2, n2) == Range(p1, n1) \cap Range(p2, n2) = {}

\* C2 as claimed: whenever get_field on a present field returns OK, whatever
\* slots the guest passed, the out_ptr slot holds the pointer malloc
\* returned, the out_len slot holds the encoded length, and memory at
\* [pointer, pointer+length) holds the encoded bytes of the stored value.
C2_AsClaimed ==
  GetFieldHitOK =>
    LET enc == jsonMarshal(last.recordBefore[LastData].val)
        ptr == last.mallocs[1].ptr
    IN  /\ ReadUint32(last.after, last.args[3]) = ptr
        /\ ReadUint32(last.after, last.args[4]) = Len(enc)
        /\ Bytes(last.after, ptr, Len(enc)) = enc

\* C2 amended: whenever get_field on a present field returns OK, malloc was
\* called once, for exactly the encoded length, the host's copy went to
\* exactly [pointer, pointer+length), and the out_len slot holds the encoded
\* length; the out_ptr slot holds the pointer when the two slots do not
\* overlap, and memory at [pointer, pointer+length) holds the encoded bytes
\* when neither slot overlaps that buffer.
C2_SlotsBoundTheValue ==
  GetFieldHitOK =>
    LET enc == jsonMarshal(last.recordBefore[LastData].val)
        ptr == last.mallocs[1].ptr
        outPtr == last.args[3]
        outLen == last.args[4]
    IN  /\ Len(last.mallocs) = 1
        /\ last.mallocs[1].size = Len(enc)
        /\ last.accesses[2].ptr = ptr /\ last.accesses[2].len = Len(enc)
        /\ ReadUint32(last.after, outLen) = Len(enc)
        /\ Disjoint(outPtr, 4, outLen, 4) =>
             ReadUint32(last.after, outPtr) = ptr
        /\ (Disjoint(ptr, Len(enc), outPtr, 4)
            /\ Disjoint(ptr, Len(enc), outLen, 4))
             => Bytes(last.after, ptr, Len(enc)) = enc

\* C2 witness: a hit returned OK with the buffer and the two slots apart.
C2_Witness ==
  /\ GetFieldHitOK
  /\ Disjoint(last.args[3], 4, last.args[4], 4)
  /\ Disjoint(last.mallocs[1].ptr, last.mallocs[1].size, last.args[3], 4)
  /\ Disjoint(last.mallocs[1].ptr, last.mallocs[1].size, last.args[4], 4)
  /\ ReadUint32(last.after, last.args[3]) = last.mallocs[1].ptr
  /\ ReadUint32(last.after, last.args[4]) = 46

\* C3 as claimed: when the guest's malloc fails during get_field on a
\* present field, get_field returns InternalFailure to the guest (the call
\* neither traps nor brings the host down).
C3_AsClaimed ==
  (GetFieldHit /\ Len(last.mallocs) = 1 /\ last.mallocs[1].err) =>
    /\ last.outcome = "return"
    /\ last.status = StatusInternalFailure

\* The last call was put_field, and it read its key and its value buffer.
PutFieldRead ==
  /\ last.op = "put_field"
  /\ Len(last.accesses) = 2
  /\ last.accesses[2].ok

LastValue == Bytes(last.before, last.args[3], last.args[4])

\* C4 as claimed: put_field whose value buffer does not decode returns
\* InvalidArgument to the guest and leaves the host record as it was.
C4_AsClaimed ==
  (PutFieldRead /\ jsonUnmarshal(LastValue).err) =>
    /\ last.outcome = "return"
    /\ last.status = StatusInvalidArgument
    /\ last.recordAfter = last.recordBefore

\* The last call met a failure the guest caused: a pointer/length pair out
\* of bounds, or a value that does not decode.
GuestVisibleFailure ==
  \/ \E i \in DOMAIN last.accesses :
       InvalidPair(last.accesses[i].ptr, last.accesses[i].len,
                   last.accesses[i].size)
  \/ PutFieldRead /\ jsonUnmarshal(LastValue).err

\* C5 as claimed: a guest-visible failure in a host function call reaches
\* the guest as InvalidArgument or InternalFailure and process goes on: the
\* call returns, it does not end the run.
C5_AsClaimed ==
  GuestVisibleFailure =>
    /\ last.outcome = "return"
    /\ last.status \in {StatusInvalidArgument, StatusInternalFailure}

\* C6: get_field with a name that is not in the host record returns OK
\* (not NotFound), calls malloc not at all and leaves all of guest memory,
\* the out slots included, and its size unchanged.
C6_MissLeavesMemoryAlone ==
  GetFieldMiss =>
    /\ last.outcome = "return"
    /\ last.status = StatusOK
    /\ last.status # StatusNotFound
    /\ last.mallocs = <<>>
    /\ last.after = last.before
    /\ last.sizeAfter = last.sizeBefore

\* C6 witness: a miss, called with slots that held non-zero bytes.
C6_Witness ==
  /\ GetFieldMiss
  /\ last.args[3] = 64 /\ last.args[4] = 68
  /\ last.after[64] # 0 /\ last.after[68] # 0

\* The out_len slot get_field was given lies inside memory.
OutLenInside == ~InvalidPair(last.args[4], 4, last.sizeBefore)

\* C7 as claimed: after get_field with an unknown name returns OK, the
\* out_len slot holds 0, whatever it held before the call.
C7_AsClaimed ==
  (GetFieldMiss /\ last.outcome = "return" /\ OutLenInside) =>
    ReadUint32(last.after, last.args[4]) = 0

\* C7 amended: after get_field with an unknown name returns OK, the out_len
\* slot holds what it held before the call (the length the guest reads there
\* is 0 exactly when the guest had put 0 there).
C7_MissKeepsOutLen ==
  (GetFieldMiss /\ last.outcome = "return" /\ OutLenInside) =>
    ReadUint32(last.after, last.args[4])
      = ReadUint32(last.before, last.args[4])

\* C7 witness: a miss returned OK and the out_len slot still holds the
\* non-zero length it held before.
C7_Witness ==
  /\ GetFieldMiss /\ last.outcome = "return" /\ OutLenInside
  /\ ReadUint32(last.before, last.args[4]) # 0
  /\ ReadUint32(last.after, last.args[4]) # 0

\* C8 as claimed: put_field with valid ranges and a value that decodes
\* returns OK, and the host record then maps the key to the decoded value.
C8_AsClaimed ==
  (PutFieldRead /\ ~jsonUnmarshal(LastValue).err) =>
    /\ last.outcome = "return"
    /\ last.status = StatusOK
    /\ LastData \in DOMAIN last.recordAfter
    /\ last.recordAfter[LastData] = jsonUnmarshal(LastValue).v

Rank(s) ==
  CASE s = "Unloaded" -> 0 [] s = "Compiled" -> 1 [] s = "Instantiated" -> 2
    [] s = "Invoked" -> 3 [] OTHER -> 4

\* C9: the lifecycle only moves forward: a step leaves the state as it is,
\* moves it to the next of Unloaded, Compiled, Instantiated, Invoked,
\* Completed, or moves it to Failed; Completed and Failed are never left,
\* and nothing is invoked once the state is Failed.
C9_LifecycleForward ==
  [][ /\ \/ State' = State
         \/ Rank(State') = Rank(State) + 1
         \/ State' = "Failed"
      /\ State \in {"Completed", "Failed"} => State' = State
      /\ State' = "Completed" => State \in {"Invoked", "Completed"}
      /\ State = "Failed" => invocations' = invocations ]_vars

\* C9 witness: an instance that was invoked, made calls and then failed.
C9_Witness == State = "Failed" /\ invocations = 1 /\ calls = MaxCalls

\* Module Host construction succeeds on this binary.
Constructs ==
  /\ binary.readable /\ binary.compiles /\ binary.links
  /\ binary.hasMalloc /\ binary.hasProcess

\* C10: process is invoked at most once; a run that has ended invoked it
\* exactly once if construction succeeded and not at all otherwise; and the
\* return code main reports is the integer the guest returned.
C10_ProcessOnceAndReported ==
  /\ invocations <= 1
  /\ pc \in {"Done", "Fatal", "Panic"} =>
       invocations = (IF Constructs THEN 1 ELSE 0)
  /\ pc = "Done" => reported.set
  /\ reported.set =>
       /\ pc = "Done"
       /\ guestRtn.set
       /\ reported.rc = guestRtn.rc

\* C10 witness: the guest returned -1 after its calls and main reported -1.
C10_Witness ==
  /\ pc = "Done" /\ calls = MaxCalls
  /\ guestRtn.rc = -1 /\ reported.rc = -1

\* How far main has come.
PcRank(p) ==
  CASE p = "ReadFile" -> 0 [] p = "NewModule" -> 1 [] p = "NewInstance" -> 2
    [] p = "GetMalloc" -> 3 [] p = "GetProcess" -> 4 [] p = "process" -> 5
    [] p = "Running" -> 6 [] OTHER -> 7

\* The step main is at fails on this binary.
StepFails ==
  \/ pc = "ReadFile" /\ ~binary.readable
  \/ pc = "NewModule" /\ ~binary.compiles
  \/ pc = "NewInstance" /\ ~binary.links
  \/ pc = "GetMalloc" /\ ~binary.hasMalloc
  \/ pc = "GetProcess" /\ ~binary.hasProcess

\* C11: a step of loading, compiling, instantiating or resolving malloc or
\* process that fails ends the run at once, in failure, without process
\* having been invoked; so does a process invocation that ends in an error
\* (it ends the run with no return code reported).  No step is taken twice,
\* nothing happens after the failure, and the exit status of a failed run
\* is not 0.
C11_FailuresAreFatal ==
  [][ /\ StepFails =>
           /\ pc' \in {"Fatal", "Panic"}
           /\ invocations' = 0
           /\ ExitCode' \in {1, 2}
      /\ (pc = "Running" /\ pc' # "Running" /\ ~guestRtn'.set) =>
           /\ pc' \in {"Fatal", "Panic"}
           /\ ~reported'.set
           /\ ExitCode' \in {1, 2}
      /\ pc' # pc => PcRank(pc') > PcRank(pc)
      /\ invocations' # invocations => (Constructs /\ invocations = 0)
      /\ pc \in {"Fatal", "Panic"} => UNCHANGED vars ]_vars

\* C11 witness: the process export was missing after everything before it
\* went well: the run ended in log.Fatal and process was never invoked.
C11_Witness ==
  /\ pc = "Fatal" /\ ExitCode = 1
  /\ binary.hasMalloc /\ ~binary.hasProcess
  /\ invocations = 0

\* The last call was log, and it came to index guest memory.
LogCalled == last.op = "log" /\ Len(last.accesses) = 1

\* C12 as claimed: log returns OK, whatever the level and the message, when
\* its (data_ptr, data_len) range is valid, having handed the sink the
\* message tagged with the level; it returns InternalFailure when the range
\* cannot be read.
C12_AsClaimed ==
  LogCalled =>
    IF InvalidPair(last.args[2], last.args[3], last.sizeBefore)
      THEN last.outcome = "return" /\ last.status = StatusInternalFailure
      ELSE /\ last.outcome = "return"
           /\ last.status = StatusOK
           /\ last.logged = << <<"log", last.args[1],
                                 Bytes(last.before, last.args[2], last.args[3])>> >>

\* The last call was get_current_time, and it came to index guest memory.
TimeCalled == last.op = "get_current_time" /\ Len(last.accesses) = 1

\* The 64-bit value the guest reads at addr, least significant byte first,
\* as four 16-bit limbs.
ReadUint64(m, addr) ==
  [k \in 1..4 |-> m[addr + 2 * (k - 1)] + 256 * m[addr + 2 * (k - 1) + 1]]

\* C13 as claimed: get_current_time with a valid range [out_ptr, out_ptr+8)
\* returns OK and changes exactly those 8 bytes, to the little-endian time;
\* with an invalid range it returns InternalFailure and writes nothing.
C13_AsClaimed ==
  TimeCalled =>
    IF InvalidPair(last.args[1], 8, last.sizeBefore)
      THEN /\ last.outcome = "return"
           /\ last.status = StatusInternalFailure
           /\ last.after = last.before
      ELSE /\ last.outcome = "return"
           /\ last.status = StatusOK
           /\ ReadUint64(last.after, last.args[1]) = last.now
           /\ \A a \in DOMAIN last.before :
                a \notin Range(last.args[1], 8) => last.after[a] = last.before[a]

\* ---------------------------------------------------------------- C14
\* Unsigned comparison of two 64-bit clock readings held as four 16-bit
\* limbs, least significant limb first.
U64Less(a, b) ==
  \E k \in 1..4 : a[k] < b[k] /\ \A h \in (k+1)..4 : a[h] = b[h]

\* Unsigned comparison of two 8-byte little-endian values as the guest reads
\* them from its memory.
LE64Less(a, b) ==
  \E k \in 1..8 : a[k] < b[k] /\ \A h \in (k+1)..8 : a[h] = b[h]

\* C14 as stated: within one process invocation, the 64-bit values written
\* by successive get-current-time calls never decrease.
C14_AsClaimed ==
  \A i, j \in DOMAIN times : i < j => ~LE64Less(times[j].wrote, times[i].wrote)

\* C14 amended: the values written by successive get-current-time calls are
\* ordered exactly as the wall-clock readings taken by those calls, so they
\* never decrease between two calls whose readings did not go back.
C14_WrittenFollowsWallClock ==
  \A i, j \in DOMAIN times :
    i < j => /\ LE64Less(times[i].wrote, times[j].wrote)
                  <=> U64Less(times[i].now, times[j].now)
             /\ LE64Less(times[j].wrote, times[i].wrote)
                  <=> U64Less(times[j].now, times[i].now)

\* Two successful get-current-time calls whose readings moved forward.
C14_Witness ==
  /\ Len(times) = 2
  /\ U64Less(times[1].now, times[2].now)
  /\ LE64Less(times[1].wrote, times[2].wrote)

\* ---------------------------------------------------------------- C15
\* C15: the host's record changes only in a put-field call that returned OK;
\* a get-field, get-current-time or log call leaves it as it was, whatever
\* its arguments and however it ended.
C15_OnlyPutFieldMutates ==
  [][ /\ record' # record =>
           /\ calls' = calls + 1
           /\ last'.op = "put_field"
           /\ last'.outcome = "return"
           /\ last'.status = StatusOK
      /\ (calls' # calls /\ last'.op \in {"get_field", "get_current_time", "log"})
           => /\ record' = record
              /\ last'.recordAfter = last'.recordBefore ]_vars

\* A get-field hit that returned OK after an earlier get-current-time call,
\* with the record still holding the initial message.
C15_Witness ==
  /\ calls = 2
  /\ Len(times) = 1
  /\ GetFieldHitOK
  /\ record = (MessageName :> Value("string", Raw))

\* ---------------------------------------------------------------- C16
\* C16 as stated: for a value of any kind, decoding what the encoder made
\* of it succeeds and gives back exactly that value.
C16_AsClaimed ==
  codecPc = "decoded" => ~decoded.err /\ decoded.v = fieldValue

\* ---------------------------------------------------------------- C17
\* The ECS entries a reference by this name stands for: the field of that
\* name if there is one, else the fields of the field set of that name.
Matches(name) ==
  IF name \in DOMAIN catalogue.field THEN <<catalogue.field[name]>>
  ELSE IF name \in DOMAIN catalogue.set THEN catalogue.set[name]
  ELSE <<>>

Unmatched(f) == f.External = "ecs" /\ Len(Matches(f.Name)) = 0

Kept(f) == f.External # "ecs" \/ Unmatched(f)

\* The number of output fields the input fields before flat[i] account for.
RECURSIVE Before(_)
Before(i) ==
  IF i <= 1 THEN 0
  ELSE Before(i - 1)
       + (IF Kept(flat[i - 1]) THEN 1 ELSE Len(Matches(flat[i - 1].Name)))

\* C17: once ResolveECSReferences has returned, hasUnresolved is true
\* exactly when some input field with External "ecs" matches no ECS field or
\* field set; the output is the input fields' contributions in input order,
\* where a field that is not an ECS reference, or matches nothing, is there
\* unchanged, and a resolved reference is there as its ECS entries, each
\* carrying the reference's Source and SourceLine.
C17_ResolveKeepsOrderAndSource ==
  resolvePc = "returned" =>
    /\ hasUnresolved <=> \E i \in DOMAIN flat : Unmatched(flat[i])
    /\ Len(out) = Before(Len(flat) + 1)
    /\ \A i \in DOMAIN flat :
         IF Kept(flat[i]) THEN out[Before(i) + 1] = flat[i]
         ELSE \A k \in DOMAIN Matches(flat[i].Name) :
                LET o == out[Before(i) + k]
                    e == Matches(flat[i].Name)[k]
                IN  /\ o.Source = flat[i].Source
                    /\ o.SourceLine = flat[i].SourceLine
                    /\ o.External = "ecs"
                    /\ o.Name = e.FlatName
                    /\ o.Type = e.Type
                    /\ o.Description = e.Description

\* A call that returned after resolving a field set of two fields, keeping
\* an unmatched reference and keeping a field that is no reference.
C17_Witness ==
  /\ resolvePc = "returned"
  /\ hasUnresolved
  /\ \E i \in DOMAIN flat : Unmatched(flat[i])
  /\ \E i \in DOMAIN flat : ~Kept(flat[i]) /\ Len(Matches(flat[i].Name)) = 2
  /\ Len(out) = 3

\* ---------------------------------------------------------------- C18
\* The host's writes to guest memory in the last call, in the order made.
Writes == SelectSeq(last.accesses, LAMBDA a : a.kind = "write")

OldMemoryKept ==
  \A a \in DOMAIN last.before : last.after[a] = last.before[a]

\* C18: on a get-field hit the value is encoded, malloc is called exactly
\* once with the encoded length, then the encoded bytes are copied to the
\* pointer malloc returned, then out_ptr is written, then out_len.  Nothing
\* is written when malloc fails, and the out-parameters are written only
\* after a copy that was made.
C18_AllocateThenCopy ==
  GetFieldHit =>
    LET enc == jsonMarshal(last.recordBefore[LastData].val)
        call == last.mallocs[1]
    IN  /\ Len(last.mallocs) = 1
        /\ call.size = Len(enc)
        /\ Len(Writes) <= 3
        /\ call.err => Writes = <<>> /\ OldMemoryKept /\ last.outcome = "trap"
        /\ ~call.err =>
             /\ Len(Writes) >= 1
             /\ Writes[1].ptr = call.ptr /\ Writes[1].len = Len(enc)
             /\ ~Writes[1].ok => Len(Writes) = 1 /\ OldMemoryKept
        /\ Len(Writes) >= 2 =>
             /\ Writes[1].ok
             /\ Writes[2].ptr = last.args[3] /\ Writes[2].len = 4
        /\ Len(Writes) = 3 =>
             /\ Writes[2].ok
             /\ Writes[3].ptr = last.args[4] /\ Writes[3].len = 4
        /\ last.outcome = "return" =>
             Len(Writes) = 3 /\ \A k \in 1..3 : Writes[k].ok

\* A hit that went through all the steps: malloc gave 16 without growing
\* the memory, the copy and both out-parameter writes were made.
C18_Witness ==
  /\ GetFieldHitOK
  /\ Len(Writes) = 3
  /\ last.mallocs[1].ptr = 16
  /\ last.sizeAfter = last.sizeBefore

\* ---------------------------------------------------------------- C19
\* C19: every host access is checked against the size the memory has when
\* the access is made: the first access of a call against the size at the
\* call, whatever the guest grew before it, and get_field's copy and
\* out-parameter writes against the size after malloc returned.  An access
\* is made exactly when it lies inside that size, and the memory the call
\* leaves is the grown one.
C19_BoundsFollowGrowth ==
  [][ calls' # calls =>
        /\ last'.sizeBefore = memSize
        /\ last'.sizeAfter = memSize'
        /\ DOMAIN last'.after = 0..(memSize' - 1)
        /\ mem' = last'.after
        /\ \A k \in DOMAIN last'.accesses :
             LET a == last'.accesses[k]
             IN  /\ a.size = IF k = 1 THEN memSize ELSE memSize'
                 /\ a.ok <=> ~InvalidPair(a.ptr, a.len, a.size)
                 /\ k > 1 => last'.accesses[k - 1].ok
        /\ (last'.outcome = "return" /\ last'.accesses # <<>>) =>
             \A k \in DOMAIN last'.accesses : last'.accesses[k].ok ]_vars

\* A hit whose malloc grew the memory and returned a buffer that ends
\* beyond the old size, after which the copy and both writes were made:
\* the bytes beyond the old size are the value's.
C19_Witness ==
  /\ GetFieldHitOK
  /\ last.sizeAfter > last.sizeBefore
  /\ last.mallocs[1].ptr + last.mallocs[1].size > last.sizeBefore
  /\ LET enc == jsonMarshal(last.recordBefore[LastData].val)
         end == last.mallocs[1].ptr + last.mallocs[1].size
     IN  \A a \in last.sizeBefore..(end - 1) :
           last.after[a] = enc[a - last.mallocs[1].ptr + 1]

\* ---------------------------------------------------------------- C20
\* pointer + length as unsigned 32-bit numbers, added without wrap-around,
\* is at most the size of a memory of this many pages.
InsideUnsigned(npages, up, ul) ==
  LET lo == up[1] + ul[1]
      hi == up[2] + ul[2] + (lo \div 65536)
  IN  hi < npages \/ (hi = npages /\ lo % 65536 = 0)

\* C20 as stated: a (pointer, length) pair is accepted exactly when, read
\* as unsigned 32-bit numbers, pointer + length neither overflows 32 bits
\* nor exceeds the memory size, pointers and ends from 2^31 up included.
C20_AsClaimed ==
  boundsPc = "sliced" =>
    (sliced = "ok" <=> InsideUnsigned(pages, argPtr, argLen))

====
